---------------------------- MODULE Spec2Model ----------------------------
(***************************************************************************)
(* A model of the KN5 node exporter (src/NodeWriter.py): NodeWriter.write  *)
(* walks the scene's objects, partitions every mesh object by material     *)
(* (splitObjectByMaterials), re-chunks partitions above the vertex limit   *)
(* (splitMeshesForVertexLimit), applies the configured node settings and   *)
(* appends Node and Mesh records to the output file.                       *)
(*                                                                         *)
(* The output file is modelled as the sequence of records written to it    *)
(* (one record per writeBaseNodeData / writeMesh call); a record holds the *)
(* fields the code writes, without the transform matrix and the bounding   *)
(* sphere.  Python's None is the empty tuple, a value x that may be None   *)
(* is the 1-tuple <<x>>.  Names are tuples of characters.  Python indices  *)
(* are 0-based and kept 0-based in the model.                              *)
(***************************************************************************)
EXTENDS Integers, Sequences, FiniteSets, TLC

VARIABLES
    scene,          \* context.blend_data.objects (read only while write() runs)
    settings,       \* the parsed settings: settings["nodes"] as a list of (key, overrides)
    file,           \* the records written to self.file so far
    warnings,       \* self.warnings
    pc,             \* position of the write() call
    todo,           \* objects writeObject has still to be called with, in call order
    cur,            \* the object writeMeshNode is working on (0: none)
    meshes,         \* context.blend_data.meshes: the temporary meshes alive
    created,        \* number of to_mesh() calls so far
    removed,        \* number of meshes.remove() calls so far
    dividedMeshes,  \* writeMeshNode: result of splitObjectByMaterials
    newMeshes,      \* writeMeshNode: result of splitMeshesForVertexLimit
    nodeProperties, \* writeMeshNode: the NodeProperties after the settings loop
    error           \* the exception write() ended with (<<>>: none)

vars == <<scene, settings, file, warnings, pc, todo, cur, meshes, created,
          removed, dividedMeshes, newMeshes, nodeProperties, error>>

-----------------------------------------------------------------------------
(* Bounds of the model *)

\* objects in a scene of the traversal family
NumObjects == 5
\* objects in a scene of the object-kind family
NumKindObjects == 2
\* faces of a mesh of the deduplication family
MaxFaces == 2
\* faces of a mesh of the strip family
MaxStripFaces == 3
\* node-setting rules in the settings
MaxRules == 2
\* the source's limit (2**16 vertices per mesh), scaled down so that the
\* model checker reaches meshes above it
limit == 8

-----------------------------------------------------------------------------
(* Generic helpers *)

None == <<>>
Some(x) == <<x>>

Range(s) == {s[i] : i \in 1..Len(s)}

RECURSIVE SeqSum(_)
SeqSum(s) == IF s = <<>> THEN 0 ELSE Head(s) + SeqSum(Tail(s))

RECURSIVE Flatten(_)
Flatten(ss) == IF ss = <<>> THEN <<>> ELSE Head(ss) \o Flatten(Tail(ss))

\* the elements of s satisfying Test, in order
SelectIdx(s, Test(_)) ==
    LET F[i \in 0..Len(s)] ==
            IF i = 0 THEN <<>>
            ELSE IF Test(i) THEN Append(F[i-1], i) ELSE F[i-1]
    IN F[Len(s)]

\* str.startswith("__")
startswithReserved(name) ==
    Len(name) >= 2 /\ name[1] = "_" /\ name[2] = "_"

\* sorted(seq, key=...): Python's sort is stable, and so is this insertion
\* sort; key is a function from the elements to their sort keys
RECURSIVE InsertByKey(_, _, _)
InsertByKey(x, s, key) ==
    IF s = <<>> THEN <<x>>
    ELSE IF key[x] < key[Head(s)] THEN <<x>> \o s
    ELSE <<Head(s)>> \o InsertByKey(x, Tail(s), key)

RECURSIVE sorted(_, _)
sorted(s, key) ==
    IF s = <<>> THEN <<>>
    ELSE InsertByKey(s[Len(s)], sorted(SubSeq(s, 1, Len(s) - 1), key), key)

-----------------------------------------------------------------------------
(* kn5Helper (src/utils/__init__.py) *)

\* convertVector3: Vector((v[0], v[2], -v[1])); v is 0-based in the source
convertVector3(v) == <<v[1], v[3], -v[2]>>

-----------------------------------------------------------------------------
(* class UvVertex, class Mesh *)

UvVertex(co, normal, uv, tangent) ==
    [co |-> co, normal |-> normal, uv |-> uv, tangent |-> tangent]

\* a variant of UvVertex.__eq__ that leaves the uv out of the comparison
UvVertexEq_ignoringUv(a, b) ==
    /\ a.co = b.co
    /\ a.normal = b.normal
    /\ a.tangent = b.tangent

\* UvVertex.__eq__: component-wise comparison of co, normal, uv and tangent
UvVertexEq(a, b) ==
    /\ ~ (a.co[1] # b.co[1] \/ a.co[2] # b.co[2] \/ a.co[3] # b.co[3])
    /\ ~ (a.normal[1] # b.normal[1] \/ a.normal[2] # b.normal[2]
            \/ a.normal[3] # b.normal[3])
    /\ ~ (a.uv[1] # b.uv[1] \/ a.uv[2] # b.uv[2])
    /\ ~ (a.tangent[1] # b.tangent[1] \/ a.tangent[2] # b.tangent[2]
            \/ a.tangent[3] # b.tangent[3])

Mesh(materialId, vertices, indices) ==
    [materialId |-> materialId, vertices |-> vertices, indices |-> indices]

(* A Python dict {key: index} is a function from its keys to their values.  *)
(* UvVertex.__hash__ is computed from the very components __eq__ compares,  *)
(* so equal vertices hash alike and a lookup is decided by __eq__.          *)
EmptyDict == [k \in {} |-> 0]

\* `vertex in vertices`
DictHas(d, vertex) == \E k \in DOMAIN d : UvVertexEq(k, vertex)

\* `vertices[vertex]`
DictGet(d, vertex) == d[CHOOSE k \in DOMAIN d : UvVertexEq(k, vertex)]

\* `vertices[vertex] = newIndex` for a vertex that is not in the dict
DictPut(d, vertex, newIndex) ==
    [k \in DOMAIN d \cup {vertex} |-> IF k \in DOMAIN d THEN d[k] ELSE newIndex]

\* [v for v, index in sorted(d.items(), key=lambda k: k[1])]: the keys in
\* ascending order of their values (the values of d are pairwise different)
KeysByValue(d) ==
    LET rank == [k \in DOMAIN d |-> Cardinality({j \in DOMAIN d : d[j] < d[k]})]
    IN [i \in 1..Cardinality(DOMAIN d) |-> CHOOSE k \in DOMAIN d : rank[k] = i - 1]

-----------------------------------------------------------------------------
(* A Python set of small non-negative ints (CPython's setobject.c): a hash  *)
(* table of 8 slots while the set holds at most 4 keys, hash(k) = k, first  *)
(* slot k mod 8, next slot (5 i + 1 + perturb) mod 8 with perturb shifted   *)
(* right by 5 bits each round.  Iteration reads the slots in order.         *)

EmptySetTable == [i \in 0..7 |-> None]

RECURSIVE SetProbe(_, _, _, _)
SetProbe(table, key, i, perturb) ==
    IF table[i] = None \/ table[i] = Some(key) THEN i
    ELSE SetProbe(table, key, (i * 5 + 1 + (perturb \div 32)) % 8, perturb \div 32)

SetAdd(table, key) == [table EXCEPT ![SetProbe(table, key, key % 8, key)] = Some(key)]

\* set(list)
RECURSIVE SetOf(_)
SetOf(list) ==
    IF list = <<>> THEN EmptySetTable
    ELSE SetAdd(SetOf(SubSeq(list, 1, Len(list) - 1)), list[Len(list)])

\* `for x in set`: the keys in slot order
SetIter(table) ==
    LET F[i \in -1..7] ==
            IF i = -1 THEN <<>>
            ELSE IF table[i] = None THEN F[i-1] ELSE Append(F[i-1], table[i][1])
    IN F[7]

-----------------------------------------------------------------------------
(* The Materials Writer (materialsWriter.materialPositions) *)

Digit == <<"0", "1", "2", "3", "4", "5", "6", "7", "8", "9">>

\* the name of the material the model puts in slot i of a mesh
MaterialName(i) == <<"m", Digit[(i % 10) + 1]>>

\* a material the Materials Writer has no entry for, and an ignored material
UnmappedMaterial == <<"x">>
ReservedMaterial == <<"_", "_", "m">>

\* the name -> id mapping handed over by the Materials Writer: the position
\* of each material it wrote
materialPositions == [name \in {MaterialName(i) : i \in 0..9} |->
                        CHOOSE i \in 0..9 : MaterialName(i) = name]

\* materialPositions[materialName]: the id, None when there is no entry
materialId(materialName) ==
    IF materialName \in DOMAIN materialPositions
    THEN Some(materialPositions[materialName])
    ELSE None

-----------------------------------------------------------------------------
(* NodeWriter.splitObjectByMaterials *)

Exception(kind, name) == [kind |-> kind, object |-> name]

\* calculateUvs for an object of dimensions (1, 1, 1) whose material has no
\* active texture slot: x = co[0]/size[0], y = co[1]/size[1]
calculateUvs(object, co) == <<co[1] \div object.dimensions[1], co[2] \div object.dimensions[2]>>

\* matrix * v.co for a world matrix that is a translation
worldPosition(object, co) ==
    <<co[1] + object.matrix_world[1], co[2] + object.matrix_world[2],
      co[3] + object.matrix_world[3]>>

\* the UvVertex built for corner vertexIndexForFace (0-based) of face number
\* f (1-based position in tessfaces; face.index = f - 1)
cornerVertex(object, meshCopy, f, vertexIndexForFace) ==
    LET face == meshCopy.tessfaces[f]
        v == meshCopy.vertices[face.vertices[vertexIndexForFace + 1] + 1]
        localPosition == worldPosition(object, v.co)
        uvRaw == face.uv[vertexIndexForFace + 1]
        uv == IF meshCopy.hasUv THEN <<uvRaw[1], -uvRaw[2]>>
              ELSE calculateUvs(object, localPosition)
    IN UvVertex(convertVector3(localPosition), convertVector3(v.normal), uv, <<1, 0, 0>>)

\* newIndex=len(vertices)
newIndexFor(vertices) == Cardinality(DOMAIN vertices)

\* the dict after `if not vertex in vertices: vertices[vertex]=newIndex`
addVertex(vertices, vertex) ==
    IF ~ DictHas(vertices, vertex)
    THEN DictPut(vertices, vertex, newIndexFor(vertices))
    ELSE vertices

\* indices.extend((f[1], f[2], f[0])); if len(f) == 4: indices.extend((f[2], f[3], f[0]))
faceTriangles(faceIndices) ==
    <<faceIndices[2], faceIndices[3], faceIndices[1]>>
    \o (IF Len(faceIndices) = 4
        THEN <<faceIndices[3], faceIndices[4], faceIndices[1]>>
        ELSE <<>>)

\* one round of `for face in meshCopy.tessfaces` for a face of the material
faceStep(object, meshCopy, st, f) ==
    LET n == Len(meshCopy.tessfaces[f].vertices)
        G[c \in 0..n] ==
            IF c = 0 THEN [vertices |-> st.vertices, faceIndices |-> <<>>]
            ELSE LET prev == G[c-1]
                     vertex == cornerVertex(object, meshCopy, f, c - 1)
                     d == addVertex(prev.vertices, vertex)
                 IN [vertices |-> d,
                     faceIndices |-> Append(prev.faceIndices, DictGet(d, vertex))]
        last == G[n]
    IN [vertices |-> last.vertices,
        indices |-> st.indices \o faceTriangles(last.faceIndices)]

\* the vertices dict and the indices list built for one material index
partitionOf(object, meshCopy, materialIndex) ==
    LET faces == meshCopy.tessfaces
        H[f \in 0..Len(faces)] ==
            IF f = 0 THEN [vertices |-> EmptyDict, indices |-> <<>>]
            ELSE IF ~ (materialIndex = faces[f].material_index) THEN H[f-1]
            ELSE faceStep(object, meshCopy, H[f-1], f)
    IN H[Len(faces)]

\* a variant of usedMaterials that keeps the material indices in the order
\* of the faces they are first used by
usedMaterials_firstSeen(meshCopy) ==
    LET faces == meshCopy.tessfaces
        firsts == SelectIdx(faces, LAMBDA f :
                        \A g \in 1..(f - 1) :
                            faces[g].material_index # faces[f].material_index)
    IN [k \in 1..Len(firsts) |-> faces[firsts[k]].material_index]

\* usedMaterials=set([face.material_index for face in meshFaces]), as iterated
usedMaterials(meshCopy) ==
    SetIter(SetOf([f \in 1..Len(meshCopy.tessfaces) |->
                        meshCopy.tessfaces[f].material_index]))

\* The body of the try block: [err, meshes]; err is None, or the exception
\* raised, and then the meshes built so far are lost.
splitObjectByMaterials(object) ==
    LET meshCopy == object.mesh
        used == usedMaterials(meshCopy)
        L[k \in 0..Len(used)] ==
            IF k = 0 THEN [err |-> None, meshes |-> <<>>]
            ELSE LET prev == L[k-1] IN
                 IF prev.err # None THEN prev
                 ELSE
                 LET materialIndex == used[k]
                     slot == meshCopy.materials[materialIndex + 1]
                 IN IF slot = None
                    THEN [err |-> Some(Exception("EmptyMaterialSlot", object.name)),
                          meshes |-> <<>>]
                    ELSE IF startswithReserved(slot[1])
                    THEN [err |-> Some(Exception("IgnoredMaterial", object.name)),
                          meshes |-> <<>>]
                    ELSE LET p == partitionOf(object, meshCopy, materialIndex)
                         IN [err |-> None,
                             meshes |-> Append(prev.meshes,
                                    Mesh(materialId(slot[1]), KeysByValue(p.vertices),
                                         p.indices))]
    IN IF Len(meshCopy.materials) = 0
       THEN [err |-> Some(Exception("NoMaterial", object.name)), meshes |-> <<>>]
       ELSE L[Len(used)]

-----------------------------------------------------------------------------
(* NodeWriter.splitMeshesForVertexLimit *)

\* mesh.indices[i:i+3] (i is 0-based)
faceSlice(indices, i) ==
    SubSeq(indices, i + 1, IF i + 3 <= Len(indices) THEN i + 3 ELSE Len(indices))

\* a variant of the break condition that closes a chunk only after it has
\* outgrown the limit
chunkFull_late(vertexIndexMapping) == Cardinality(DOMAIN vertexIndexMapping) > limit

\* `if len(vertexIndexMapping) >= limit-3: break`
chunkFull(vertexIndexMapping) == Cardinality(DOMAIN vertexIndexMapping) >= limit - 3

\* `for faceIndex in face`: the mapping and newIndices after one face
mapFace(face, vertexIndexMapping, newIndices) ==
    LET G[c \in 0..Len(face)] ==
            IF c = 0 THEN [mapping |-> vertexIndexMapping, newIndices |-> newIndices]
            ELSE LET prev == G[c-1]
                     faceIndex == face[c]
                     m == IF ~ (faceIndex \in DOMAIN prev.mapping)
                          THEN [k \in DOMAIN prev.mapping \cup {faceIndex} |->
                                    IF k \in DOMAIN prev.mapping
                                    THEN prev.mapping[k]
                                    ELSE Cardinality(DOMAIN prev.mapping)]
                          ELSE prev.mapping
                 IN [mapping |-> m,
                     newIndices |-> Append(prev.newIndices, m[faceIndex])]
    IN G[Len(face)]

\* `for i in range(startIndex, len(mesh.indices), 3)` from i on: the mapping,
\* the new indices and startIndex when the loop ends or breaks
RECURSIVE chunkLoop(_, _, _, _)
chunkLoop(indices, i, vertexIndexMapping, newIndices) ==
    IF i >= Len(indices)
    THEN [mapping |-> vertexIndexMapping, newIndices |-> newIndices, startIndex |-> i]
    ELSE LET r == mapFace(faceSlice(indices, i), vertexIndexMapping, newIndices)
         IN IF chunkFull(r.mapping)
            THEN [mapping |-> r.mapping, newIndices |-> r.newIndices,
                  startIndex |-> i + 3]
            ELSE chunkLoop(indices, i + 3, r.mapping, r.newIndices)

\* a variant of the chunk's vertex list that keeps the order of the source
\* indices instead of the order of the chunk-local indices
chunkVertices_bySource(mesh, vertexIndexMapping) ==
    LET D == DOMAIN vertexIndexMapping
    IN [j \in 1..Cardinality(D) |->
            mesh.vertices[(CHOOSE v \in D :
                                Cardinality({u \in D : u < v}) = j - 1) + 1]]

\* vertices=[mesh.vertices[v] for v, index in sorted(mapping.items(), key=index)]
chunkVertices(mesh, vertexIndexMapping) ==
    LET n == Cardinality(DOMAIN vertexIndexMapping)
    IN [j \in 1..n |->
            mesh.vertices[(CHOOSE v \in DOMAIN vertexIndexMapping :
                                vertexIndexMapping[v] = j - 1) + 1]]

\* `while startIndex<len(mesh.indices)`: the meshes appended from startIndex on
RECURSIVE chunksFrom(_, _)
chunksFrom(mesh, startIndex) ==
    IF ~ (startIndex < Len(mesh.indices)) THEN <<>>
    ELSE LET r == chunkLoop(mesh.indices, startIndex, [k \in {} |-> 0], <<>>)
         IN <<Mesh(mesh.materialId, chunkVertices(mesh, r.mapping), r.newIndices)>>
            \o chunksFrom(mesh, r.startIndex)

\* the meshes one input mesh contributes to newMeshes
splitMesh(mesh) ==
    IF Len(mesh.vertices) > limit THEN chunksFrom(mesh, 0) ELSE <<mesh>>

splitMeshesForVertexLimit(meshList) ==
    Flatten([k \in 1..Len(meshList) |-> splitMesh(meshList[k])])

-----------------------------------------------------------------------------
(* Regular expressions, as far as the exporter uses them.  A compiled       *)
(* pattern is a tuple of atoms: <<"lit", c>> for the escaped character c,   *)
(* <<"any">> for dot-star, <<"some">> for dot-plus and <<"digits">> for     *)
(* one or more digits; a pattern is anchored at both ends.  A character of  *)
(* a name is a string; the fixed prefixes of the engine's object names      *)
(* ("AC_PIT_", ...) are single characters of the model, which never looks   *)
(* inside them.                                                             *)

Lower(c) ==
    CASE c = "A" -> "a" [] c = "B" -> "b" [] c = "H" -> "h" [] c = "W" -> "w"
      [] c = "X" -> "x" [] OTHER -> c

IsDigit(c) == c \in Range(Digit)

RECURSIVE regexMatch(_, _, _)
regexMatch(pattern, name, ignoreCase) ==
    IF pattern = <<>> THEN name = <<>>
    ELSE LET atom == Head(pattern)
             rest(k) == regexMatch(Tail(pattern), SubSeq(name, k + 1, Len(name)),
                                   ignoreCase)
         IN CASE atom[1] = "lit" ->
                    /\ name # <<>>
                    /\ IF ignoreCase THEN Lower(name[1]) = Lower(atom[2])
                       ELSE name[1] = atom[2]
                    /\ rest(1)
              [] atom[1] = "any" -> \E k \in 0..Len(name) : rest(k)
              [] atom[1] = "some" -> \E k \in 1..Len(name) : rest(k)
              [] atom[1] = "digits" ->
                    \E k \in 1..Len(name) :
                        /\ \A j \in 1..k : IsDigit(name[j])
                        /\ rest(k)

\* the module's AcObjects list, compiled by initAcObjects
AcObjects ==
    << << <<"lit", "AC_START_">>, <<"digits">> >>,
       << <<"lit", "AC_PIT_">>, <<"digits">> >>,
       << <<"lit", "AC_TIME_">>, <<"digits">>, <<"lit", "_L">> >>,
       << <<"lit", "AC_TIME_">>, <<"digits">>, <<"lit", "_R">> >>,
       << <<"lit", "AC_HOTLAP_START_">>, <<"digits">> >>,
       << <<"lit", "AC_OPEN_FINISH_R">> >>,
       << <<"lit", "AC_OPEN_FINISH_L">> >>,
       << <<"lit", "AC_OPEN_START_L">> >>,
       << <<"lit", "AC_OPEN_START_R">> >>,
       << <<"lit", "AC_AUDIO_">>, <<"some">> >>,
       << <<"lit", "AC_CREW_">>, <<"digits">> >>,
       << <<"lit", "AC_PIT_">>, <<"digits">> >> >>

isAcObject(name) ==
    \E r \in 1..Len(AcObjects) : regexMatch(AcObjects[r], name, FALSE)

-----------------------------------------------------------------------------
(* class NodeProperties, class NodeSettings *)

\* NodeProperties.__init__
NodeProperties(node) ==
    [name |-> node.name,
     lodIn |-> node.assettoCorsa.lodIn,
     lodOut |-> node.assettoCorsa.lodOut,
     layer |-> node.assettoCorsa.layer,
     castShadows |-> node.assettoCorsa.castShadows,
     visible |-> node.assettoCorsa.visible,
     transparent |-> node.assettoCorsa.transparent,
     renderable |-> node.assettoCorsa.renderable]

\* key.split("|")
RECURSIVE split(_, _)
split(key, sep) ==
    IF \A i \in 1..Len(key) : key[i] # sep THEN <<key>>
    ELSE LET i == CHOOSE j \in 1..Len(key) :
                        key[j] = sep /\ \A h \in 1..(j-1) : key[h] # sep
         IN <<SubSeq(key, 1, i - 1)>> \o split(SubSeq(key, i + 1, Len(key)), sep)

\* escapeMatchKey: a star becomes dot-star, every other character is escaped
escapeMatchKey(key) ==
    [i \in 1..Len(key) |-> IF key[i] = "*" THEN <<"any">> ELSE <<"lit", key[i]>>]

\* convertToMatchesList
convertToMatchesList(key) ==
    LET subkeys == split(key, "|")
    IN [i \in 1..Len(subkeys) |-> escapeMatchKey(subkeys[i])]

\* NodeSettings.__init__: a rule is the entry (key, overrides) of
\* settings["nodes"]; overrides maps the JSON names present to their values
NodeSettings(nodeSettingsKey, overrides) ==
    [nodeSettingsKey |-> nodeSettingsKey,
     overrides |-> overrides,
     nodeNameMatches |-> convertToMatchesList(nodeSettingsKey)]

doesNodeNameMatch(rule, nodeName) ==
    \E i \in 1..Len(rule.nodeNameMatches) :
        regexMatch(rule.nodeNameMatches[i], nodeName, TRUE)

\* getNodeLodIn, getNodeLodOut, ...: the value under the JSON name, None
\* when the name is absent (a JSON null is None as well)
getNode(rule, jsonName) ==
    IF jsonName \in DOMAIN rule.overrides THEN rule.overrides[jsonName] ELSE None

\* `x = self.getNodeX(); if x is not None: node.x = x`
override(current, value) == IF value # None THEN value[1] ELSE current

applySettingsToNode(rule, node) ==
    IF ~ doesNodeNameMatch(rule, node.name) THEN node
    ELSE [name |-> node.name,
          lodIn |-> override(node.lodIn, getNode(rule, "lodIn")),
          lodOut |-> override(node.lodOut, getNode(rule, "lodOut")),
          layer |-> override(node.layer, getNode(rule, "layer")),
          castShadows |-> override(node.castShadows, getNode(rule, "castShadows")),
          visible |-> override(node.visible, getNode(rule, "isVisible")),
          transparent |-> override(node.transparent, getNode(rule, "isTransparent")),
          renderable |-> override(node.renderable, getNode(rule, "isRenderable"))]

\* initNodeSettings: one NodeSettings per key of settings["nodes"], in the
\* order of the keys
initNodeSettings(s) ==
    IF s.hasNodes
    THEN [i \in 1..Len(s.nodes) |-> NodeSettings(s.nodes[i].key, s.nodes[i].overrides)]
    ELSE <<>>

\* a variant of the settings loop that applies the rules last to first
applyAllSettings_reversed(nodeSettings, node) ==
    LET n == Len(nodeSettings)
        F[i \in 0..n] ==
            IF i = 0 THEN node ELSE applySettingsToNode(nodeSettings[n + 1 - i], F[i-1])
    IN F[n]

\* `for nodeSetting in self.nodeSettings: nodeSetting.applySettingsToNode(...)`
applyAllSettings(nodeSettings, node) ==
    LET F[i \in 0..Len(nodeSettings)] ==
            IF i = 0 THEN node ELSE applySettingsToNode(nodeSettings[i], F[i-1])
    IN F[Len(nodeSettings)]

-----------------------------------------------------------------------------
(* The scene: context.blend_data.objects is a tuple of objects; an object   *)
(* is named by its position in it and parent = 0 is Python's parent None.   *)

\* object.children: the objects whose parent is o, in the order of the scene
children(sc, o) == SelectIdx(sc, LAMBDA i : sc[i].parent = o)

\* NodeWriter.anyChildIsMesh
RECURSIVE anyChildIsMesh(_, _)
anyChildIsMesh(sc, o) ==
    \E i \in Range(children(sc, o)) : sc[i].type = "MESH" \/ anyChildIsMesh(sc, i)

-----------------------------------------------------------------------------
(* The records of the output file *)

\* writeBaseNodeData: class tag, name, childCount, active (and the transform)
NodeRecord(name, childCount) ==
    [cls |-> 1, name |-> name, childCount |-> childCount, active |-> TRUE]

\* what writeMesh has written when it raises on the vertex count
PartialMeshRecord(name, props) ==
    [cls |-> 2, name |-> name, childCount |-> 0, active |-> TRUE,
     castShadows |-> props.castShadows, visible |-> props.visible,
     transparent |-> props.transparent, partial |-> TRUE]

\* writeMesh: the whole record (without the bounding sphere)
MeshRecord(name, mesh, materialIdWritten, props) ==
    [cls |-> 2, name |-> name, childCount |-> 0, active |-> TRUE,
     castShadows |-> props.castShadows, visible |-> props.visible,
     transparent |-> props.transparent,
     vertices |-> mesh.vertices, indices |-> mesh.indices,
     materialId |-> materialIdWritten,
     layer |-> props.layer, lodIn |-> props.lodIn, lodOut |-> props.lodOut,
     renderable |-> props.renderable, partial |-> FALSE]

BlenderFile == <<"BlenderFile">>

\* the childCount writeBaseNode computes: for object None (o = 0) the
\* parent-less objects, else the children, names starting with "__" left out
baseNodeChildCount(sc, o) ==
    Cardinality({i \in 1..Len(sc) : sc[i].parent = o /\ ~ startswithReserved(sc[i].name)})

\* writeBaseNode(object, object.name) for an object of the scene: the record
\* and the warnings appended
writeBaseNode(sc, o) ==
    [record |-> NodeRecord(sc[o].name, baseNodeChildCount(sc, o)),
     warnings |-> IF ~ isAcObject(sc[o].name) /\ ~ anyChildIsMesh(sc, o)
                  THEN << <<"UnknownLogicalObject", sc[o].name>> >>
                  ELSE <<>>]

\* a variant of writeMesh that raises when the mesh has no material id
writeMesh_raising(object, mesh, props) ==
    IF Len(mesh.vertices) > limit \/ mesh.materialId = None
    THEN [record |-> PartialMeshRecord(object.name, props), warnings |-> <<>>,
          err |-> Some(Exception("TooManyVertices", object.name))]
    ELSE [record |-> MeshRecord(object.name, mesh, mesh.materialId[1], props),
          warnings |-> <<>>, err |-> None]

\* writeMesh: the record written, the warnings appended, the exception raised
writeMesh(object, mesh, props) ==
    IF Len(mesh.vertices) > limit
    THEN [record |-> PartialMeshRecord(object.name, props), warnings |-> <<>>,
          err |-> Some(Exception("TooManyVertices", object.name))]
    ELSE IF mesh.materialId = None
    THEN [record |-> MeshRecord(object.name, mesh, 0, props),
          warnings |-> << <<"NoMaterialId", object.name>> >>,
          err |-> None]
    ELSE [record |-> MeshRecord(object.name, mesh, mesh.materialId[1], props),
          warnings |-> <<>>, err |-> None]

\* `for mesh in dividedMeshes: self.writeMesh(object, mesh, nodeProperties)`
writeMeshes(object, meshList, props) ==
    LET F[k \in 0..Len(meshList)] ==
            IF k = 0 THEN [records |-> <<>>, warnings |-> <<>>, err |-> None]
            ELSE LET prev == F[k-1] IN
                 IF prev.err # None THEN prev
                 ELSE LET w == writeMesh(object, meshList[k], props)
                      IN [records |-> Append(prev.records, w.record),
                          warnings |-> prev.warnings \o w.warnings,
                          err |-> w.err]
    IN F[Len(meshList)]

\* writeMeshNode: is the wrapper Node record written?
writesWrapper(object, meshList) == object.parent # 0 \/ Len(meshList) > 1

\* a variant of the children test of writeObject that never finds a child
meshHasChildren_never(sc, o) == FALSE

\* writeObject: `len(object.children) != 0`
meshHasChildren(sc, o) == Len(children(sc, o)) # 0

\* a variant of the sort key: the number of objects of the whole subtree
RECURSIVE sortKey_descendants(_, _)
sortKey_descendants(sc, o) ==
    SeqSum([k \in 1..Len(children(sc, o)) |->
                1 + sortKey_descendants(sc, children(sc, o)[k])])

\* key=lambda k: len(k.children)
sortKey(sc, o) == Len(children(sc, o))

\* the order write() visits the parent-less objects in:
\* sorted(objects, key=lambda k: len(k.children)), then `if o.parent is None`
topLevelOrder(sc) ==
    SelectSeq(sorted([i \in 1..Len(sc) |-> i], [i \in 1..Len(sc) |-> sortKey(sc, i)]),
              LAMBDA o : sc[o].parent = 0)

\* a variant in which the temporary mesh is removed only when the try block
\* ended normally
finallyRuns_onSuccess(err) == err = None

\* the finally clause of splitObjectByMaterials runs however the try block
\* ends (err is the exception it ended with, None when it ended normally)
finallyRuns(err) == TRUE

-----------------------------------------------------------------------------
(* The steps of NodeWriter.write *)

\* write(), up to the loop: the root record
Write ==
    /\ pc = "start"
    /\ file' = Append(file, NodeRecord(BlenderFile, baseNodeChildCount(scene, 0)))
    /\ todo' = topLevelOrder(scene)
    /\ pc' = "objects"
    /\ UNCHANGED <<scene, settings, warnings, cur, meshes, created, removed,
                   dividedMeshes, newMeshes, nodeProperties, error>>

\* writeObject(object) for the next object; for a mesh object it runs up to
\* the to_mesh() call of splitObjectByMaterials
WriteObject ==
    /\ pc = "objects"
    /\ todo # <<>>
    /\ LET o == Head(todo)
           object == scene[o]
       IN IF startswithReserved(object.name)
          THEN /\ todo' = Tail(todo)
               /\ UNCHANGED <<file, warnings, pc, cur, meshes, created, error>>
          ELSE IF object.type = "MESH"
          THEN IF meshHasChildren(scene, o)
               THEN /\ error' = Some(Exception("MeshChildren", object.name))
                    /\ pc' = "failed"
                    /\ UNCHANGED <<file, warnings, todo, cur, meshes, created>>
               ELSE /\ cur' = o
                    /\ meshes' = meshes \cup {created + 1}
                    /\ created' = created + 1
                    /\ pc' = "split"
                    /\ todo' = Tail(todo)
                    /\ UNCHANGED <<file, warnings, error>>
          ELSE /\ file' = Append(file, writeBaseNode(scene, o).record)
               /\ warnings' = warnings \o writeBaseNode(scene, o).warnings
               /\ todo' = children(scene, o) \o Tail(todo)
               /\ UNCHANGED <<pc, cur, meshes, created, error>>
    /\ UNCHANGED <<scene, settings, removed, dividedMeshes, newMeshes, nodeProperties>>

\* splitObjectByMaterials after to_mesh(): the try block and the finally clause
SplitObject ==
    /\ pc = "split"
    /\ LET r == splitObjectByMaterials(scene[cur])
       IN /\ IF finallyRuns(r.err)
             THEN /\ meshes' = meshes \ {created}
                  /\ removed' = removed + 1
             ELSE UNCHANGED <<meshes, removed>>
          /\ IF r.err # None
             THEN /\ error' = r.err
                  /\ pc' = "failed"
                  /\ UNCHANGED dividedMeshes
             ELSE /\ dividedMeshes' = r.meshes
                  /\ pc' = "emit"
                  /\ UNCHANGED error
    /\ UNCHANGED <<scene, settings, file, warnings, todo, cur, created, newMeshes,
                   nodeProperties>>

\* writeMeshNode after splitObjectByMaterials
WriteMeshNode ==
    /\ pc = "emit"
    /\ LET object == scene[cur]
           divided == splitMeshesForVertexLimit(dividedMeshes)
           wrapper == IF writesWrapper(object, divided)
                      THEN <<NodeRecord(object.name, Len(divided))>>
                      ELSE <<>>
           props == applyAllSettings(initNodeSettings(settings), NodeProperties(object))
           w == writeMeshes(object, divided, props)
       IN /\ newMeshes' = divided
          /\ nodeProperties' = props
          /\ file' = file \o wrapper \o w.records
          /\ warnings' = warnings \o w.warnings
          /\ IF w.err # None
             THEN error' = w.err /\ pc' = "failed"
             ELSE pc' = "objects" /\ UNCHANGED error
    /\ UNCHANGED <<scene, settings, todo, cur, meshes, created, removed, dividedMeshes>>

\* write() returns
WriteReturn ==
    /\ pc = "objects"
    /\ todo = <<>>
    /\ pc' = "done"
    /\ UNCHANGED <<scene, settings, file, warnings, todo, cur, meshes, created,
                   removed, dividedMeshes, newMeshes, nodeProperties, error>>

Next == Write \/ WriteObject \/ SplitObject \/ WriteMeshNode \/ WriteReturn

-----------------------------------------------------------------------------
(* The scenes and settings write() is run on *)

\* node.assettoCorsa as authored: every property has the value 0; the value
\* a settings rule gives is the rule's number, so that a value names its origin
AuthoredProperties ==
    [lodIn |-> 0, lodOut |-> 0, layer |-> 0, castShadows |-> 0, visible |-> 0,
     transparent |-> 0, renderable |-> 0]

NoMesh == [materials |-> <<>>, vertices |-> <<>>, tessfaces |-> <<>>, hasUv |-> FALSE]

Object(name, type, parent, mesh) ==
    [name |-> name, type |-> type, parent |-> parent, mesh |-> mesh,
     matrix_world |-> <<0, 0, 0>>, dimensions |-> <<1, 1, 1>>,
     assettoCorsa |-> AuthoredProperties]

\* mesh vertex number i (0-based) of the model's meshes
MeshVertex(i) == [co |-> <<i, 0, 0>>, normal |-> <<0, 0, 1>>]
MeshVertices(n) == [i \in 1..n |-> MeshVertex(i - 1)]

\* ten material slots, slot i holding the material MaterialName(i)
AllSlots == [i \in 1..10 |-> Some(MaterialName(i - 1))]

Face(vs, materialIndex, uv) ==
    [vertices |-> vs, material_index |-> materialIndex,
     uv |-> [c \in 1..Len(vs) |-> uv]]

MeshData(materials, n, faces, hasUv) ==
    [materials |-> materials, vertices |-> MeshVertices(n), tessfaces |-> faces,
     hasUv |-> hasUv]

OneTriangle == <<Face(<<0, 1, 2>>, 0, <<0, 0>>)>>

\* the meshes of the object-kind family, by kind
MeshOfKind(kind) ==
    CASE kind = "noMaterial" -> MeshData(<<>>, 3, OneTriangle, TRUE)
      [] kind = "noFaces" -> MeshData(AllSlots, 3, <<>>, TRUE)
      [] kind = "oneTri" -> MeshData(AllSlots, 3, OneTriangle, TRUE)
      [] kind = "twoMats" ->
            MeshData(AllSlots, 4,
                     <<Face(<<0, 1, 2>>, 1, <<0, 0>>), Face(<<2, 1, 3>>, 0, <<0, 0>>)>>,
                     TRUE)
      [] kind = "emptySlot" ->
            MeshData([AllSlots EXCEPT ![1] = None], 3, OneTriangle, TRUE)
      [] kind = "ignored" ->
            MeshData([AllSlots EXCEPT ![1] = Some(ReservedMaterial)], 3, OneTriangle, TRUE)
      [] kind = "unmapped" ->
            MeshData([AllSlots EXCEPT ![1] = Some(UnmappedMaterial)], 3, OneTriangle, TRUE)

PlainName(i) == <<"o", Digit[i + 1]>>
ReservedName(i) == <<"_", "_", "o", Digit[i + 1]>>
AcName(i) == <<"AC_PIT_", Digit[i + 1]>>

\* an object of the given kind at position i of the scene
ObjectOfKind(kind, i, parent) ==
    CASE kind = "empty" -> Object(PlainName(i), "EMPTY", parent, NoMesh)
      [] kind = "reserved" -> Object(ReservedName(i), "EMPTY", parent, NoMesh)
      [] kind = "ac" -> Object(AcName(i), "EMPTY", parent, NoMesh)
      [] kind = "reservedMesh" ->
            Object(ReservedName(i), "MESH", parent, MeshOfKind("oneTri"))
      [] OTHER -> Object(PlainName(i), "MESH", parent, MeshOfKind(kind))

\* the forests on n objects in which a parent stands before its children
Forests(n) == {p \in [1..n -> 0..(n - 1)] : \A i \in 1..n : p[i] < i}

NoSettings == [hasNodes |-> FALSE, nodes |-> <<>>]

(* Traversal family: NumObjects objects in any forest, all of them plain    *)
(* empties but at most one.                                                 *)
TraversalKinds == {"reserved", "ac", "oneTri"}

TraversalScenes(sc) ==
    \E p \in Forests(NumObjects), special \in 0..NumObjects, kind \in TraversalKinds :
        sc = [i \in 1..NumObjects |->
                ObjectOfKind(IF i = special THEN kind ELSE "empty", i, p[i])]

(* Object-kind family: NumKindObjects objects in any forest, every object   *)
(* of any kind.                                                             *)
ObjectKinds == {"empty", "reserved", "ac", "reservedMesh", "noMaterial", "noFaces", "oneTri", "twoMats",
                "emptySlot", "ignored", "unmapped"}

KindScenes(sc) ==
    \E p \in Forests(NumKindObjects), k \in [1..NumKindObjects -> ObjectKinds] :
        sc = [i \in 1..NumKindObjects |-> ObjectOfKind(k[i], i, p[i])]

(* Deduplication family: one parent-less mesh object of four vertices and   *)
(* at most MaxFaces faces; a face is a triangle or a quad, uses material    *)
(* slot 0, 1 or 8 and has one uv for all its corners.  The mesh has a uv    *)
(* layer, or none, or a uv layer and vertex 3 at the place of vertex 0.     *)
FaceChoices ==
    {Face(vs, m, uv) : vs \in {<<0, 1, 2>>, <<2, 1, 3>>, <<0, 1, 2, 3>>},
                       m \in {0, 1, 8}, uv \in {<<0, 0>>, <<0, 1>>}}

DedupMesh(faces, variant) ==
    [materials |-> AllSlots,
     vertices |-> IF variant = "welded"
                  THEN [MeshVertices(4) EXCEPT ![4] = MeshVertex(0)]
                  ELSE MeshVertices(4),
     tessfaces |-> faces,
     hasUv |-> variant # "noUv"]

DedupScenes(sc) ==
    \E k \in 0..MaxFaces :
        \E faces \in [1..k -> FaceChoices], variant \in {"uv", "noUv", "welded"} :
            sc = <<Object(PlainName(1), "MESH", 0, DedupMesh(faces, variant))>>

(* Strip family: a mesh object, parent-less or the child of an empty, whose *)
(* mesh is a strip of at most MaxStripFaces faces of material slot 0 over   *)
(* pairwise different vertices without a uv layer: a face is a triangle or  *)
(* a quad and starts 1 to 4 vertices after the start of the face before it. *)
(* The material of slot 0 is one the Materials Writer has an entry for, or  *)
(* one it has none for.                                                     *)
StripChoices == {[quad |-> q, gap |-> g] : q \in BOOLEAN, g \in 1..4}

StripStart(strip, j) == SeqSum([i \in 1..j |-> strip[i].gap]) - 1

StripMesh(strip, mapped) ==
    [materials |-> IF mapped THEN AllSlots
                   ELSE [AllSlots EXCEPT ![1] = Some(UnmappedMaterial)],
     vertices |-> MeshVertices(StripStart(strip, Len(strip)) + 4),
     tessfaces |-> [j \in 1..Len(strip) |->
                        LET st == StripStart(strip, j)
                        IN Face(IF strip[j].quad THEN <<st, st + 1, st + 2, st + 3>>
                                ELSE <<st, st + 1, st + 2>>, 0, <<0, 0>>)],
     hasUv |-> FALSE]

StripScenes(sc) ==
    \E k \in 0..MaxStripFaces :
        \E strip \in [1..k -> StripChoices], withParent \in BOOLEAN, mapped \in BOOLEAN :
            sc = IF withParent
                 THEN <<Object(PlainName(1), "EMPTY", 0, NoMesh),
                        Object(PlainName(2), "MESH", 1, StripMesh(strip, mapped))>>
                 ELSE <<Object(PlainName(1), "MESH", 0, StripMesh(strip, mapped))>>

(* Settings family: one parent-less mesh object named "Wh" and at most      *)
(* MaxRules rules with pairwise different keys.  Rule number i sets the     *)
(* fields it defines to the value i; it defines no field, one field, all    *)
(* fields, or gives lodIn the JSON value null (alone or beside a layer).    *)
SettingsScene == <<Object(<<"W", "h">>, "MESH", 0, MeshOfKind("oneTri"))>>

JsonNames == {"lodIn", "lodOut", "layer", "castShadows", "isVisible",
              "isTransparent", "isRenderable"}

KeyChoices == {<<"w", "*">>, <<"x", "|", "W", "H">>, <<"w">>}

OverrideChoices(i) ==
    {[n \in D |-> Some(i)] : D \in {{}, JsonNames} \cup {{f} : f \in JsonNames}}
    \cup {[n \in {"lodIn"} |-> None],
          [n \in {"lodIn", "layer"} |-> IF n = "lodIn" THEN None ELSE Some(i)]}

\* the rule lists of k rules
RuleLists(k) ==
    {[i \in 1..k |-> [key |-> keys[i], overrides |-> ovs[i]]] :
        keys \in {f \in [1..k -> KeyChoices] : \A i, j \in 1..k : i # j => f[i] # f[j]},
        ovs \in {f \in [1..k -> UNION {OverrideChoices(i) : i \in 1..k}] :
                    \A i \in 1..k : f[i] \in OverrideChoices(i)}}

SettingsChoices(st) ==
    \E k \in 0..MaxRules : \E r \in RuleLists(k) : st = [hasNodes |-> TRUE, nodes |-> r]

Init ==
    /\ \/ /\ settings = NoSettings
          /\ \/ TraversalScenes(scene)
             \/ KindScenes(scene)
             \/ DedupScenes(scene)
             \/ StripScenes(scene)
             \/ scene = SettingsScene
       \/ /\ scene = SettingsScene
          /\ SettingsChoices(settings)
    /\ file = <<>>
    /\ warnings = <<>>
    /\ pc = "start"
    /\ todo = <<>>
    /\ cur = 0
    /\ meshes = {}
    /\ created = 0
    /\ removed = 0
    /\ dividedMeshes = <<>>
    /\ newMeshes = <<>>
    /\ nodeProperties = NodeProperties(Object(<<>>, "EMPTY", 0, NoMesh))
    /\ error = None

Spec == Init /\ [][Next]_vars

-----------------------------------------------------------------------------
(* Vocabulary of the properties *)

\* the exception write() ended with is of the given kind
Raised(kind) == error # None /\ error[1].kind = kind

\* the objects of the subtree below o
RECURSIVE Descendants(_, _)
Descendants(sc, o) ==
    {i \in 1..Len(sc) : sc[i].parent = o}
    \cup UNION {Descendants(sc, i) : i \in {j \in 1..Len(sc) : sc[j].parent = o}}

\* o is exported: neither its name nor the name of an object above it
\* starts with "__"
RECURSIVE Exported(_, _)
Exported(sc, o) ==
    /\ ~ startswithReserved(sc[o].name)
    /\ sc[o].parent # 0 => Exported(sc, sc[o].parent)

\* the exported mesh objects that have a child
MeshesWithChildren(sc) ==
    {o \in 1..Len(sc) : /\ sc[o].type = "MESH"
                        /\ Exported(sc, o)
                        /\ \E i \in 1..Len(sc) : sc[i].parent = o}

\* the places of the records named like object o
RecordsOf(o) == {i \in 1..Len(file) : file[i].name = scene[o].name}
Emitted(o) == RecordsOf(o) # {}
FirstRecord(o) == CHOOSE i \in RecordsOf(o) : \A j \in RecordsOf(o) : i <= j

-----------------------------------------------------------------------------
(* C1 *)

\* C1, as claimed: in a scene with an exported mesh object that has a child,
\* write() ends with the 'A mesh cannot contain children' error and the file
\* holds nothing when it is raised.
C1_NoPartialWrites ==
    (pc \in {"done", "failed"} /\ MeshesWithChildren(scene) # {})
        => (Raised("MeshChildren") /\ file = <<>>)

\* writeObject is about to be called with an exported mesh object that has a child
C1_AtOffendingMesh ==
    /\ pc = "objects"
    /\ todo # <<>>
    /\ Head(todo) \in MeshesWithChildren(scene)

\* C1, amended: when the traversal reaches an exported mesh object that has
\* a child, write() raises the 'A mesh cannot contain children' error naming
\* that object and writes nothing for it: the file and the warnings stay as
\* they were, the file holding the root record and the records of the
\* objects visited before.  write() does not return normally from such a
\* scene: it ends with that error, or with the fatal error of a mesh visited
\* earlier.
C1_RaisesBeforeWritingTheMesh ==
    /\ [][C1_AtOffendingMesh =>
            /\ pc' = "failed"
            /\ error' = Some(Exception("MeshChildren", scene[Head(todo)].name))
            /\ file' = file
            /\ warnings' = warnings
            /\ Len(file) >= 1
            /\ file[1] = NodeRecord(BlenderFile, baseNodeChildCount(scene, 0))]_vars
    /\ [](pc = "done" => MeshesWithChildren(scene) = {})
    /\ [](Raised("MeshChildren") =>
            \E o \in MeshesWithChildren(scene) :
                /\ error[1].object = scene[o].name
                /\ ~ Emitted(o))

\* C1, witness: the error was raised for a mesh that was not the first
\* object visited; the root record and another record are in the file
C1_Witness ==
    /\ pc = "failed"
    /\ Raised("MeshChildren")
    /\ Len(file) >= 2
    /\ file[1].name = BlenderFile

-----------------------------------------------------------------------------
(* C2 *)

DirectChildren(sc, o) == Cardinality({i \in 1..Len(sc) : sc[i].parent = o})
DescendantCount(sc, o) == Cardinality(Descendants(sc, o))

\* the records of a come before the records of b
Before(a, b) == FirstRecord(a) < FirstRecord(b)

\* the pairs of different objects with the same parent that both have records
EmittedSiblings ==
    {ab \in (1..Len(scene)) \X (1..Len(scene)) :
        /\ ab[1] # ab[2]
        /\ scene[ab[1]].parent = scene[ab[2]].parent
        /\ Emitted(ab[1])
        /\ Emitted(ab[2])}

\* below the top level, records follow the scene's child order
C2_NativeChildOrder ==
    \A ab \in EmittedSiblings :
        scene[ab[1]].parent # 0 => (Before(ab[1], ab[2]) <=> ab[1] < ab[2])

\* C2, as claimed: the records of the parent-less objects come in ascending
\* order of the objects' descendant counts, ties in the scene's object
\* order; deeper levels follow the scene's child order.
C2_ByDescendantCount ==
    /\ \A ab \in EmittedSiblings :
            scene[ab[1]].parent = 0 =>
                (Before(ab[1], ab[2]) <=>
                    \/ DescendantCount(scene, ab[1]) < DescendantCount(scene, ab[2])
                    \/ /\ DescendantCount(scene, ab[1]) = DescendantCount(scene, ab[2])
                       /\ ab[1] < ab[2])
    /\ C2_NativeChildOrder

\* C2, amended: the records of the parent-less objects come in ascending
\* order of the number of each object's direct children (len(o.children)),
\* ties in the scene's object order; deeper levels follow the scene's child
\* order.
C2_ByDirectChildCount ==
    /\ \A ab \in EmittedSiblings :
            scene[ab[1]].parent = 0 =>
                (Before(ab[1], ab[2]) <=>
                    \/ DirectChildren(scene, ab[1]) < DirectChildren(scene, ab[2])
                    \/ /\ DirectChildren(scene, ab[1]) = DirectChildren(scene, ab[2])
                       /\ ab[1] < ab[2])
    /\ C2_NativeChildOrder

\* C2, witness: write() returned after the sort moved a parent-less object
\* with fewer children before an earlier one, and two children of one object
\* have records
C2_Witness ==
    /\ pc = "done"
    /\ \E ab \in EmittedSiblings :
            /\ scene[ab[1]].parent = 0
            /\ ab[1] < ab[2]
            /\ DirectChildren(scene, ab[1]) > DirectChildren(scene, ab[2])
            /\ Before(ab[2], ab[1])
    /\ \E ab \in EmittedSiblings : scene[ab[1]].parent # 0

-----------------------------------------------------------------------------
(* C3 *)

\* the records a step appends to the file
Appended == SubSeq(file', Len(file) + 1, Len(file'))

\* C3, as claimed: writeMeshNode writes the wrapper Node record (childCount
\* the number of partitions after the vertex-limit split) and then the
\* partitions' Mesh records if and only if the object has a parent or was
\* split into more than one partition; otherwise it writes no wrapper and
\* exactly one Mesh record.
C3_WrapperOrSingleMesh ==
    [][pc = "emit" =>
        LET n == Len(newMeshes')
            name == scene[cur].name
        IN IF scene[cur].parent # 0 \/ n > 1
           THEN /\ Len(Appended) = n + 1
                /\ Appended[1] = NodeRecord(name, n)
                /\ \A k \in 2..(n + 1) : Appended[k].cls = 2 /\ Appended[k].name = name
           ELSE /\ Len(Appended) = 1
                /\ Appended[1].cls = 2
                /\ Appended[1].name = name]_vars

-----------------------------------------------------------------------------
(* C4, C5 *)

\* the triangle corners of a list of meshes in order: for every index the
\* material id of its mesh and the vertex it stands for in that mesh
Resolved(meshList) ==
    Flatten([k \in 1..Len(meshList) |->
                [t \in 1..Len(meshList[k].indices) |->
                    <<meshList[k].materialId,
                      meshList[k].vertices[meshList[k].indices[t] + 1]>>]])

\* the partitions splitObjectByMaterials returned that exceed the limit
OverLimit == {k \in 1..Len(dividedMeshes) : Len(dividedMeshes[k].vertices) > limit}

\* C4: once splitMeshesForVertexLimit has run, every mesh it returned holds
\* whole triangles (its index count is a multiple of 3), and reading the
\* returned meshes in order and resolving each index through its mesh's
\* vertex array gives back the triangle corners of the partitions it was
\* given: the same vertices under the same material id in the same order,
\* none lost or duplicated.
C4_ChunksRebuildThePartitions ==
    pc # "emit" =>
        /\ \A k \in 1..Len(newMeshes) : Len(newMeshes[k].indices) % 3 = 0
        /\ Resolved(newMeshes) = Resolved(dividedMeshes)

\* C4, witness: a partition over the limit was split into several chunks,
\* one of them holding more than one triangle
C4_Witness ==
    /\ pc = "done"
    /\ OverLimit # {}
    /\ Len(newMeshes) >= 2
    /\ \E k \in 1..Len(newMeshes) : Len(newMeshes[k].indices) >= 6

\* C5: every mesh splitMeshesForVertexLimit returned has at most limit
\* vertices and each of its indices is below its vertex count; writeMesh
\* never raises 'Only ... vertices per mesh allowed'.
C5_ChunksWithinTheLimit ==
    /\ pc # "emit" =>
            \A k \in 1..Len(newMeshes) :
                /\ Len(newMeshes[k].vertices) <= limit
                /\ \A t \in 1..Len(newMeshes[k].indices) :
                        newMeshes[k].indices[t] \in 0..(Len(newMeshes[k].vertices) - 1)
    /\ ~ Raised("TooManyVertices")

\* C5, witness: a partition over the limit was split, a chunk grew to the
\* most vertices a chunk can have, and every chunk was written
C5_Witness ==
    /\ pc = "done"
    /\ OverLimit # {}
    /\ \E k \in 1..Len(newMeshes) : Len(newMeshes[k].vertices) = limit - 1
    /\ Cardinality({i \in 1..Len(file) : file[i].cls = 2}) = Len(newMeshes)

-----------------------------------------------------------------------------
(* C6, C7 *)

\* the material slots the faces of a mesh use
UsedSlots(mesh) == {mesh.tessfaces[f].material_index : f \in 1..Len(mesh.tessfaces)}

\* the faces of a mesh that use slot s, in the order of the mesh
FacesOf(mesh, s) == SelectIdx(mesh.tessfaces, LAMBDA f : mesh.tessfaces[f].material_index = s)

\* the exported vertices of the corners of face f, in the order of the face
CornersOfFace(object, f) ==
    [c \in 1..Len(object.mesh.tessfaces[f].vertices) |->
        cornerVertex(object, object.mesh, f, c - 1)]

\* the corners of the faces of slot s, face after face
Corners(object, s) ==
    LET fs == FacesOf(object.mesh, s)
    IN Flatten([k \in 1..Len(fs) |-> CornersOfFace(object, fs[k])])

\* the triangle corners the faces of slot s stand for: corners (1, 2, 0) of
\* every face and then corners (2, 3, 0) of a quad
Wound(object, s) ==
    LET fs == FacesOf(object.mesh, s)
    IN Flatten([k \in 1..Len(fs) |->
                    LET cs == CornersOfFace(object, fs[k])
                    IN <<cs[2], cs[3], cs[1]>>
                       \o (IF Len(cs) = 4 THEN <<cs[3], cs[4], cs[1]>> ELSE <<>>)])

\* a sequence without the later occurrences of its elements
FirstSeen(seq) ==
    LET F[i \in 0..Len(seq)] ==
            IF i = 0 THEN <<>>
            ELSE LET prev == F[i-1]
                 IN IF seq[i] \in Range(prev) THEN prev ELSE Append(prev, seq[i])
    IN F[Len(seq)]

\* mesh is the partition of slot s: its vertices are the different corners
\* of the slot's faces in first-seen order, every index refers to a vertex,
\* and the indices stand for the triangle corners of the slot's faces
IsPartitionOf(object, mesh, s) ==
    /\ mesh.materialId = materialId(object.mesh.materials[s + 1][1])
    /\ mesh.vertices = FirstSeen(Corners(object, s))
    /\ \A i, j \in 1..Len(mesh.vertices) : i # j => mesh.vertices[i] # mesh.vertices[j]
    /\ \A t \in 1..Len(mesh.indices) : mesh.indices[t] \in 0..(Len(mesh.vertices) - 1)
    /\ [t \in 1..Len(mesh.indices) |-> mesh.vertices[mesh.indices[t] + 1]]
            = Wound(object, s)

\* the pairs of corners of two different faces (of the given pairs of slots)
\* whose exported vertices are identical
SharedCorners(object, SamePartition) ==
    LET faces == object.mesh.tessfaces
    IN {x \in (1..Len(faces)) \X (1..4) \X (1..Len(faces)) \X (1..4) :
            /\ x[1] # x[3]
            /\ x[2] <= Len(faces[x[1]].vertices)
            /\ x[4] <= Len(faces[x[3]].vertices)
            /\ SamePartition => faces[x[1]].material_index = faces[x[3]].material_index
            /\ CornersOfFace(object, x[1])[x[2]] = CornersOfFace(object, x[3])[x[4]]}

\* the entries of the partitions' vertex arrays that hold vertex v
EntriesOf(v) ==
    {e \in (1..Len(dividedMeshes)) \X (1..(4 * Len(scene[cur].mesh.tessfaces))) :
        /\ e[2] <= Len(dividedMeshes[e[1]].vertices)
        /\ dividedMeshes[e[1]].vertices[e[2]] = v}

\* C6, as claimed: for any two faces of the object that share a vertex with
\* identical position, normal, uv and tangent, the partitions hold exactly
\* one entry for it.
C6_OneEntryPerSharedVertex ==
    pc = "emit" =>
        \A x \in SharedCorners(scene[cur], FALSE) :
            Cardinality(EntriesOf(CornersOfFace(scene[cur], x[1])[x[2]])) = 1

\* C6, amended: for any two faces of the same material slot that share a
\* vertex with identical position, normal, uv and tangent, the partition of
\* that slot holds exactly one entry for it and both faces refer to it;
\* there is one partition per used slot, its vertex array lists the
\* different vertices of the slot's faces in first-seen order, and every
\* index refers to that array.
C6_OneEntryPerPartition ==
    pc = "emit" =>
        LET object == scene[cur] IN
        /\ Len(dividedMeshes) = Cardinality(UsedSlots(object.mesh))
        /\ \A s \in UsedSlots(object.mesh) :
                \E k \in 1..Len(dividedMeshes) : IsPartitionOf(object, dividedMeshes[k], s)

\* C6, witness: two faces of one slot share an identical vertex, once at
\* one mesh vertex and once at two mesh vertices of the same place, and the
\* partition holds fewer vertices than its faces have corners
C6_Witness ==
    /\ pc = "emit"
    /\ Len(dividedMeshes) = 1
    /\ LET object == scene[cur]
           faces == object.mesh.tessfaces
           shared == SharedCorners(object, TRUE)
       IN /\ \E x \in shared :
                faces[x[1]].vertices[x[2]] = faces[x[3]].vertices[x[4]]
          /\ \E x \in shared :
                faces[x[1]].vertices[x[2]] # faces[x[3]].vertices[x[4]]
          /\ Len(dividedMeshes[1].vertices) < Len(Corners(object, faces[1].material_index))

\* the slot of each partition, in the order of the partitions
SlotsInOrder ==
    [k \in 1..Len(dividedMeshes) |->
        CHOOSE s \in UsedSlots(scene[cur].mesh) :
            IsPartitionOf(scene[cur], dividedMeshes[k], s)]

\* C7, as claimed: the partitions come in ascending order of their material
\* slot indices, whatever slots are used.
C7_AscendingSlots ==
    pc = "emit" =>
        \A k, l \in 1..Len(dividedMeshes) : k < l => SlotsInOrder[k] < SlotsInOrder[l]

\* C7, amended: the partitions come in the order in which Python iterates
\* over the set of the used slot indices; that is the ascending order when
\* every used slot index is below 8, the size of a small set's hash table.
C7_AscendingSlotsBelow8 ==
    (pc = "emit" /\ \A s \in UsedSlots(scene[cur].mesh) : s < 8) =>
        \A k, l \in 1..Len(dividedMeshes) : k < l => SlotsInOrder[k] < SlotsInOrder[l]

\* C7, witness: the faces use slot 1 before slot 0 and the partition of
\* slot 0 comes first
C7_Witness ==
    /\ pc = "emit"
    /\ Len(dividedMeshes) = 2
    /\ scene[cur].mesh.tessfaces[1].material_index = 1
    /\ SlotsInOrder = <<0, 1>>

-----------------------------------------------------------------------------
(* C8 *)

\* the rules of the settings, as declared
DeclaredRules == IF settings.hasNodes THEN settings.nodes ELSE <<>>

\* rule number i matches the name
RuleMatches(i, name) ==
    doesNodeNameMatch(NodeSettings(DeclaredRules[i].key, DeclaredRules[i].overrides), name)

\* the rules that match the name and give the JSON name a value
RulesDefining(name, jsonName) ==
    {i \in 1..Len(DeclaredRules) :
        /\ RuleMatches(i, name)
        /\ jsonName \in DOMAIN DeclaredRules[i].overrides
        /\ DeclaredRules[i].overrides[jsonName] # None}

\* the value of the last declared rule that matches the name and gives the
\* JSON name a value; the authored value when there is no such rule
Expected(name, jsonName, authored) ==
    LET D == RulesDefining(name, jsonName)
    IN IF D = {} THEN authored
       ELSE DeclaredRules[CHOOSE i \in D : \A j \in D : j <= i].overrides[jsonName][1]

\* the seven properties of p are the expected ones of object o
HasExpectedProperties(p, o) ==
    LET name == scene[o].name
        ac == scene[o].assettoCorsa
    IN /\ p.lodIn = Expected(name, "lodIn", ac.lodIn)
       /\ p.lodOut = Expected(name, "lodOut", ac.lodOut)
       /\ p.layer = Expected(name, "layer", ac.layer)
       /\ p.castShadows = Expected(name, "castShadows", ac.castShadows)
       /\ p.visible = Expected(name, "isVisible", ac.visible)
       /\ p.transparent = Expected(name, "isTransparent", ac.transparent)
       /\ p.renderable = Expected(name, "isRenderable", ac.renderable)

\* C8: once the rules have been applied to a mesh node's properties, each of
\* lodIn, lodOut, layer, castShadows, visible, transparent and renderable
\* has the value of the last declared rule that matches the node's name and
\* gives the field a value, and the authored value when no matching rule
\* gives it one; the Mesh records are written with these values.
C8_LastMatchingRuleWins ==
    /\ (pc \in {"objects", "done"} /\ cur # 0) => HasExpectedProperties(nodeProperties, cur)
    /\ \A i \in 1..Len(file) :
            (file[i].cls = 2 /\ ~ file[i].partial) =>
                \A o \in 1..Len(scene) :
                    scene[o].name = file[i].name => HasExpectedProperties(file[i], o)

\* C8, witness: two rules match the node, the first gives every field a
\* value and the second only the layer; a Mesh record has the second rule's
\* layer and the first rule's lodIn
C8_Witness ==
    /\ pc = "done"
    /\ Len(DeclaredRules) = 2
    /\ RuleMatches(1, scene[cur].name)
    /\ RuleMatches(2, scene[cur].name)
    /\ DOMAIN DeclaredRules[1].overrides = JsonNames
    /\ DOMAIN DeclaredRules[2].overrides = {"layer"}
    /\ \E i \in 1..Len(file) :
            file[i].cls = 2 /\ file[i].layer = 2 /\ file[i].lodIn = 1

-----------------------------------------------------------------------------
(* C9 *)

\* the meshes returned by splitMeshesForVertexLimit that have no material id
Unmapped(meshList) == {k \in 1..Len(meshList) : meshList[k].materialId = None}

-----------------------------------------------------------------------------
(* C10 *)

\* C10: the temporary meshes are removed as often as they are created; one
\* exists only between to_mesh() and the end of splitObjectByMaterials, by
\* return or by exception, so never more than one at a time and none when
\* write() has ended, normally or by a fatal error.
C10_TemporaryMeshRemoved ==
    /\ Cardinality(meshes) <= 1
    /\ pc = "split" => (meshes = {created} /\ removed = created - 1)
    /\ pc # "split" => (meshes = {} /\ removed = created)

\* C10, witness: splitObjectByMaterials raised for the second mesh object of
\* a scene, and both temporary meshes were removed
C10_Witness ==
    /\ pc = "failed"
    /\ \/ Raised("NoMaterial")
       \/ Raised("EmptyMaterialSlot")
       \/ Raised("IgnoredMaterial")
    /\ created = 2
    /\ removed = 2
    /\ meshes = {}

-----------------------------------------------------------------------------
(* C11 *)

\* Reading the file in pre-order: the place after the subtree of the record
\* at place i, and the place after n subtrees in a row that start at place
\* i; 0 when the file ends before the declared children have been read
RECURSIVE SubtreeEnd(_)
RECURSIVE ChildrenEnd(_, _)
SubtreeEnd(i) ==
    IF i > Len(file) THEN 0 ELSE ChildrenEnd(i + 1, file[i].childCount)
ChildrenEnd(i, n) ==
    IF n = 0 THEN i
    ELSE LET e == SubtreeEnd(i)
         IN IF e = 0 THEN 0 ELSE ChildrenEnd(e, n - 1)

\* the objects with parent o (0: no parent) that have records in the file
EmittedChildren(o) == {c \in 1..Len(scene) : scene[c].parent = o /\ Emitted(c)}

\* the number of children the Node record at place i has in the file: for
\* the root the parent-less objects with records, for a mesh object's
\* wrapper its Mesh records, for another object its children with records
ActualChildCount(i) ==
    IF i = 1 THEN Cardinality(EmittedChildren(0))
    ELSE LET o == CHOOSE x \in 1..Len(scene) : scene[x].name = file[i].name
         IN IF scene[o].type = "MESH"
            THEN Cardinality({j \in RecordsOf(o) : file[j].cls = 2})
            ELSE Cardinality(EmittedChildren(o))

\* the parent-less mesh objects that are exported and have no faces
FacelessTopLevelMeshes ==
    {o \in 1..Len(scene) :
        /\ scene[o].type = "MESH"
        /\ scene[o].parent = 0
        /\ ~ startswithReserved(scene[o].name)
        /\ scene[o].mesh.tessfaces = <<>>}

\* C11, as claimed: when write() has returned, the file begins with the
\* 'BlenderFile' record, the declared childCount of every Node record is
\* the number of records written as its direct children, and the file read
\* in pre-order is exactly one tree; for every scene, the scenes with a
\* parent-less mesh object without faces included.
C11_ChildCountsMatch ==
    pc = "done" =>
        /\ Len(file) >= 1
        /\ file[1] = NodeRecord(BlenderFile, file[1].childCount)
        /\ \A i \in 1..Len(file) :
                file[i].cls = 1 => file[i].childCount = ActualChildCount(i)
        /\ SubtreeEnd(1) = Len(file) + 1

=============================================================================
